---- MODULE Spec2Model ----
(***************************************************************************)
(* A model of alleviate: the report data model and its renderer, the      *)
(* errno rule framework (Enoent, Eperm), the filesystem helper            *)
(* _find_similar_files, the traceback helpers and the call-site recovery  *)
(* engine of alleviate.disas.                                             *)
(*                                                                         *)
(* Text is a sequence of one-character strings, so that len(), strip(),   *)
(* concatenation and ' ' * n are computed as Python computes them.        *)
(***************************************************************************)
EXTENDS Integers, Sequences, FiniteSets, TLC

VARIABLES
    items,      \* AlleviateContext.items of the current context
    format,     \* AlleviateContext.format of the current context
    rendered,   \* the last Renderer.render() call: its input and what it returned
    err,        \* the caught error object handed to exception()
    tb,         \* the traceback of sys.exc_info(): links, outermost first
    fs,         \* the filesystem and process the helpers look at
    selected,   \* what the last find_alleviation() call returned
    outcome,    \* how the last exception() call ended, and what it printed
    handed,     \* (code, offset) the last label lookup gave to get_function_and_args
    similar,    \* what the last _find_similar_files() call returned
    site,       \* the frame and offset of a call-site recovery
    recovered   \* what the last get_function_and_args() call did

vars == <<items, format, rendered, err, tb, fs, selected, outcome, handed,
          similar, site, recovered>>

(***************************************************************************)
(* Bounds of the model.                                                    *)
(***************************************************************************)
MaxItems == 2
MaxEntries == 3
MaxArgs == 2
MaxKw == 1
MaxDepth == 2

(***************************************************************************)
(* Text.                                                                   *)
(***************************************************************************)
NL == <<"\n">>
SP == <<" ">>
Whitespace == {" ", "\n", "\t"}

Max(a, b) == IF a >= b THEN a ELSE b
Min(a, b) == IF a <= b THEN a ELSE b

\* Body(value), with value evaluated once: TLC evaluates a LET definition anew
\* at each of its uses, and a variable bound over a singleton set only once.
Bind(value, Body(_)) == CHOOSE r \in {Body(v) : v \in {value}} : TRUE

\* c * n of Python: n copies of the text c, none when n <= 0.
RECURSIVE Rep(_, _)
Rep(c, n) == IF n <= 0 THEN <<>> ELSE c \o Rep(c, n - 1)

RECURSIVE lstrip(_)
lstrip(s) == IF s # <<>> /\ Head(s) \in Whitespace THEN lstrip(Tail(s)) ELSE s

RECURSIVE rstrip(_)
rstrip(s) ==
    IF s # <<>> /\ s[Len(s)] \in Whitespace
    THEN rstrip(SubSeq(s, 1, Len(s) - 1))
    ELSE s

\* A strip() that trims the front only.
strip_front_only(s) == lstrip(s)

strip(s) == rstrip(lstrip(s))

\* s[lo:hi] of Python on a sequence (0-based, negative indices count from the end).
PyIndex(n, k) == IF k < 0 THEN Max(0, n + k) ELSE Min(n, k)
PySlice(s, lo, hi) == SubSeq(s, PyIndex(Len(s), lo) + 1, PyIndex(Len(s), hi))

RECURSIVE Reverse(_)
Reverse(s) == IF s = <<>> THEN <<>> ELSE Reverse(Tail(s)) \o <<Head(s)>>

\* '{:d}'.format(n) for n >= 0.
Digit(d) == <<"0", "1", "2", "3", "4", "5", "6", "7", "8", "9">>[d + 1]
RECURSIVE Decimal(_)
Decimal(n) == IF n < 10 THEN <<Digit(n)>> ELSE Decimal(n \div 10) \o <<Digit(n % 10)>>

(***************************************************************************)
(* Output formats and report items.                                        *)
(***************************************************************************)
Plain == "plain"
Detailed == "detailed"
JSON == "json"
Output == {Plain, Detailed, JSON}

Description(text) == [kind |-> "description", text |-> text]
Solution(desc, sol) == [kind |-> "solution", description |-> desc, solution |-> sol]
Symptom(name, value) == [kind |-> "symptom", name |-> name, value |-> value]
Header(title) == [kind |-> "header", title |-> title]
Separator(num) == [kind |-> "separator", num |-> num]

(***************************************************************************)
(* ItemRender: one rendering rule per (format, item kind).                 *)
(***************************************************************************)
indent == 1
i == Rep(<<" ", " ", " ">>, indent)

render_plain_description(item) == item.text \o NL
render_detailed_description(item) == item.text \o NL
render_json_description(item) == item.text

render_plain_solution(item) == item.solution \o NL
render_detailed_solution(item) ==
    i \o item.description \o <<":", "\n", "\n">> \o item.solution \o NL
render_json_solution(item) == item.solution

render_plain_symptom(item) == <<>>
render_detailed_symptom(item, column) ==
    i \o item.name \o <<":">> \o Rep(SP, 1 + Len(item.name) - column)
      \o item.value \o NL
render_json_symptom(item) == [name |-> item.name, value |-> item.value]

render_plain_header(item) == item.title \o NL
render_detailed_header(item) ==
    item.title \o NL \o Rep(<<"-">>, Len(item.title)) \o NL
render_json_header(item) == <<>>

render_plain_separator(item) == <<>> \o Rep(NL, item.num)
render_detailed_separator(item) == <<>> \o Rep(NL, item.num)
render_json_separator(item) == <<>>

\* Renderer._render: the method named 'render_' + format + '_' + class name.
\* column is ItemRender.column, which render_detailed sets before its loop.
_render(item, fmt, column) ==
    CASE fmt = Plain /\ item.kind = "description" -> render_plain_description(item)
      [] fmt = Plain /\ item.kind = "solution" -> render_plain_solution(item)
      [] fmt = Plain /\ item.kind = "symptom" -> render_plain_symptom(item)
      [] fmt = Plain /\ item.kind = "header" -> render_plain_header(item)
      [] fmt = Plain /\ item.kind = "separator" -> render_plain_separator(item)
      [] fmt = Detailed /\ item.kind = "description" -> render_detailed_description(item)
      [] fmt = Detailed /\ item.kind = "solution" -> render_detailed_solution(item)
      [] fmt = Detailed /\ item.kind = "symptom" -> render_detailed_symptom(item, column)
      [] fmt = Detailed /\ item.kind = "header" -> render_detailed_header(item)
      [] fmt = Detailed /\ item.kind = "separator" -> render_detailed_separator(item)
      [] fmt = JSON /\ item.kind = "description" -> render_json_description(item)
      [] fmt = JSON /\ item.kind = "solution" -> render_json_solution(item)
      [] fmt = JSON /\ item.kind = "symptom" -> render_json_symptom(item)
      [] fmt = JSON /\ item.kind = "header" -> render_json_header(item)
      [] fmt = JSON /\ item.kind = "separator" -> render_json_separator(item)

_by_type(its, kind) == SelectSeq(its, LAMBDA x : x.kind = kind)

\* A render loop that joins the segments with '\n' instead of ending each with it.
RECURSIVE RenderLoopJoined(_, _, _)
RenderLoopJoined(its, fmt, column) ==
    IF its = <<>> THEN <<>>
    ELSE IF Len(its) = 1 THEN _render(Head(its), fmt, column)
    ELSE _render(Head(its), fmt, column) \o NL \o RenderLoopJoined(Tail(its), fmt, column)

\* The loop of render_plain and render_detailed: s += self._render(item) + '\n'.
RECURSIVE RenderLoop(_, _, _)
RenderLoop(its, fmt, column) ==
    IF its = <<>> THEN <<>>
    ELSE _render(Head(its), fmt, column) \o NL \o RenderLoop(Tail(its), fmt, column)

RECURSIVE MaxLen(_)
MaxLen(names) ==
    IF Len(names) = 1 THEN Len(Head(names))
    ELSE Max(Len(Head(names)), MaxLen(Tail(names)))

NoDoc == [absent |-> TRUE]
Returned(text, doc) == [raised |-> "none", text |-> text, doc |-> doc]
Raised(type) == [raised |-> type, text |-> <<>>, doc |-> NoDoc]

render_plain(its) == Returned(RenderLoop(its, Plain, 0), NoDoc)

\* max() of no symptom names raises ValueError.
render_detailed(its) ==
    LET symptoms == _by_type(its, "symptom")
    IN IF symptoms = <<>> THEN Raised("ValueError")
       ELSE LET max_name_length == MaxLen([k \in DOMAIN symptoms |-> symptoms[k].name])
            IN Returned(RenderLoop(its, Detailed, max_name_length), NoDoc)

\* The document render_json hands to json.dumps; [0] of no Description raises
\* IndexError.
render_json(its, exception) ==
    LET descriptions == _by_type(its, "description")
        symptoms == _by_type(its, "symptom")
        solutions == _by_type(its, "solution")
    IN IF descriptions = <<>> THEN Raised("IndexError")
       ELSE Returned(<<>>,
              [description |-> strip(descriptions[1].text),
               exception |-> exception.type,
               message |-> exception.message,
               symptoms |-> [k \in DOMAIN symptoms |-> _render(symptoms[k], JSON, 0)],
               solutions |-> [k \in DOMAIN solutions |->
                                 strip(_render(solutions[k], JSON, 0))]])

\* Renderer.render: the method named 'render_' + format.
render(its, fmt, exception) ==
    CASE fmt = Plain -> render_plain(its)
      [] fmt = Detailed -> render_detailed(its)
      [] fmt = JSON -> render_json(its, exception)

(***************************************************************************)
(* Python values: PyNone, integers, strings and objects, in one shape.       *)
(***************************************************************************)
PyNone == [t |-> "None", n |-> 0, s |-> <<>>]
PyInt(n) == [t |-> "int", n |-> n, s |-> <<>>]
PyStr(s) == [t |-> "str", n |-> 0, s |-> s]
PyObj(s) == [t |-> "object", n |-> 0, s |-> s]

N_os == <<"o", "s">>
N_open == <<"o", "p", "e", "n">>
N_path == <<"p", "a", "t", "h">>
N_join == <<"j", "o", "i", "n">>
N_get == <<"g", "e", "t">>
N_f == <<"f">>
N_x == <<"x">>
N_mode == <<"m", "o", "d", "e">>
N_flags == <<"f", "l", "a", "g", "s">>
N_self == <<"s", "e", "l", "f">>
N_main == <<"m", "a", "i", "n">>
N_read == <<"r", "e", "a", "d">>
N_Reader == <<"R", "e", "a", "d", "e", "r">>

\* sep.join(parts)
RECURSIVE Join(_, _)
Join(sep, parts) ==
    IF parts = <<>> THEN <<>>
    ELSE IF Len(parts) = 1 THEN Head(parts)
    ELSE Head(parts) \o sep \o Join(sep, Tail(parts))

(***************************************************************************)
(* The instruction set the engine reads (the host runtime's opcode table). *)
(***************************************************************************)
POP_TOP == 1
RETURN_VALUE == 83
HAVE_ARGUMENT == 90
LOAD_CONST == 100
LOAD_ATTR == 106
LOAD_GLOBAL == 116
LOAD_FAST == 124
CALL_FUNCTION == 131
EXTENDED_ARG == 145

hasconst == {100}
hasname == {90, 91, 95, 96, 97, 98, 101, 106, 108, 109, 116}
hasjrel == {93, 110, 120, 121, 122, 143}
haslocal == {124, 125, 126}
hascompare == {107}
hasfree == {135, 136, 137}
cmp_op == <<"<", "<=", "==", "!=", ">", ">=", "in", "not in", "is", "is not",
            "exception match", "BAD">>

Opcode(op, stack, oparg, imm) == [op |-> op, stack |-> stack, oparg |-> oparg, imm |-> imm]

_oparg_to_args_kwargs(oparg) == <<oparg % 256, ((oparg \div 256) % 256) * 2>>

\* The immediate value of an argument-bearing instruction; pos is the offset
\* after the instruction, which a relative jump counts from.
Immediate(co, op, oparg, pos) ==
    CASE op \in hasconst -> co.co_consts[oparg + 1]
      [] op \in hasname -> PyStr(co.co_names[oparg + 1])
      [] op \in hasjrel -> PyInt(pos + oparg)
      [] op \in haslocal -> PyStr(co.co_varnames[oparg + 1])
      [] op \in hascompare -> PyStr(<<cmp_op[oparg + 1]>>)
      [] op \in hasfree -> PyStr((co.co_cellvars \o co.co_freevars)[oparg + 1])
      [] OTHER -> PyNone

\* One pass of the while loop of disassemble, on the loop's variables
\* st = [raised, pos, extended_arg, oparg, tos, instructions] (pos is i). An
\* instruction without argument is recorded with the operand of the last
\* instruction that had one, and reading that variable before any instruction
\* set it raises UnboundLocalError (oparg = -1 stands for unset).
DisassembleStep(co, lasti, st) ==
    LET op == co.co_code[st.pos + 1]
        tos == IF st.pos = lasti THEN Len(st.instructions) ELSE st.tos
    IN IF op >= HAVE_ARGUMENT
       THEN Bind(co.co_code[st.pos + 2] + co.co_code[st.pos + 3] * 256 + st.extended_arg,
                 LAMBDA oparg :
                    [raised |-> "none",
                     pos |-> st.pos + 3,
                     extended_arg |-> IF op = EXTENDED_ARG THEN oparg * 65536 ELSE 0,
                     oparg |-> oparg,
                     tos |-> tos,
                     instructions |->
                        Append(st.instructions,
                               Opcode(op, (oparg % 256) + ((oparg \div 256) % 256) * 2,
                                      oparg, Immediate(co, op, oparg, st.pos + 3)))])
       ELSE IF st.oparg = -1
       THEN [st EXCEPT !.raised = "UnboundLocalError", !.tos = tos]
       ELSE [st EXCEPT !.pos = st.pos + 1, !.tos = tos,
                       !.instructions = Append(st.instructions,
                                               Opcode(op, 0, st.oparg, PyNone))]

RECURSIVE DisassembleFrom(_, _, _)
DisassembleFrom(co, lasti, st) ==
    IF st.pos >= Len(co.co_code) \/ st.raised # "none" THEN st
    ELSE Bind(DisassembleStep(co, lasti, st), LAMBDA st2 : DisassembleFrom(co, lasti, st2))

disassemble(co, lasti) ==
    DisassembleFrom(co, lasti,
                    [raised |-> "none", pos |-> 0, extended_arg |-> 0, oparg |-> -1,
                     tos |-> 0, instructions |-> <<>>])

\* insns[start::-1]: from index start (0-based) down to the first instruction.
RevFrom(insns, start) ==
    LET n == Len(insns)
        from == IF start < 0 THEN start + n ELSE Min(start, n - 1)
    IN IF from < 0 THEN <<>> ELSE [k \in 1..(from + 1) |-> insns[from + 2 - k]]

\* The loop of _consume_until_load_global over the reversed instructions.
RECURSIVE ConsumeLoop(_, _)
ConsumeLoop(rev, stack) ==
    IF rev = <<>> THEN stack
    ELSE LET insn == Head(rev)
             stack1 == IF insn.op = LOAD_ATTR THEN Append(stack, insn.imm.s) ELSE stack
         IN IF insn.op = LOAD_GLOBAL THEN Append(stack1, insn.imm.s)
            ELSE ConsumeLoop(Tail(rev), stack1)

_consume_until_load_global(insns, start) ==
    Reverse(ConsumeLoop(RevFrom(insns, start), <<>>))

NoCall == [raised |-> "none", found |-> FALSE, instructions |-> <<>>, name |-> <<>>]

_disas_call(code, lasti) ==
    Bind(disassemble(code, lasti), LAMBDA d :
       IF d.raised # "none"
       THEN [raised |-> d.raised, found |-> FALSE, instructions |-> <<>>, name |-> <<>>]
       ELSE IF d.instructions = <<>>
       THEN [raised |-> "IndexError", found |-> FALSE, instructions |-> <<>>,
             name |-> <<>>]
       ELSE LET tos_insn == d.instructions[d.tos + 1]
                start == d.tos - tos_insn.stack - 1
            IN IF tos_insn.op # CALL_FUNCTION THEN NoCall
               ELSE [raised |-> "none", found |-> TRUE,
                     instructions |-> Reverse(PySlice(d.instructions, start, d.tos)),
                     name |-> _consume_until_load_global(d.instructions, start)])

(***************************************************************************)
(* Frames, namespaces and objects.                                         *)
(*                                                                         *)
(* A frame is [f_code, f_globals, f_locals, builtins]: the namespaces are  *)
(* functions from names to objects and builtins says what                  *)
(* f_globals['__builtins__'] is: the __builtin__ module ("module", as in   *)
(* __main__), a dict ("dict", as in an imported module) or "absent".       *)
(***************************************************************************)
Ok(v) == [raised |-> "none", value |-> v]
Throw(type) == [raised |-> type, value |-> PyNone]

BuiltinNames == {N_open}
DictAttrs == {N_get}
Attributes == {<<N_os, N_open>>, <<N_os, N_path>>, <<N_os \o <<".">> \o N_path, N_join>>}

dir(builtins) ==
    CASE builtins = "module" -> BuiltinNames
      [] builtins = "dict" -> DictAttrs
      [] OTHER -> {}

\* eval(name) inside alleviate.disas, whose own globals hold none of the names.
eval(name) ==
    IF name \in BuiltinNames THEN Ok(PyObj(<<"_", "_", "b", "_", "_", ".">> \o name))
    ELSE Throw("NameError")

getattr(obj, name) ==
    IF <<obj.s, name>> \in Attributes THEN Ok(PyObj(obj.s \o <<".">> \o name))
    ELSE Throw("AttributeError")

\* getattr(G, n) on the dict G.
getattr_dict(name) ==
    IF name \in DictAttrs THEN Ok(PyObj(<<"d", "i", "c", "t", ".">> \o name))
    ELSE Throw("AttributeError")

_handle_opcode(opc, frame) ==
    IF opc.op = LOAD_GLOBAL
    THEN IF opc.imm.s \notin DOMAIN frame.f_globals
         THEN IF frame.builtins # "absent" /\ opc.imm.s \in dir(frame.builtins)
              THEN eval(opc.imm.s)
              ELSE Ok(PyNone)
         ELSE Ok(frame.f_globals[opc.imm.s])
    ELSE Ok(opc.imm)

\* for n in name[1:-1]: cG = getattr(G, n)
RECURSIVE MiddleLoop(_, _)
MiddleLoop(middle, cG) ==
    IF middle = <<>> THEN Ok(cG)
    ELSE LET g == getattr_dict(Head(middle))
         IN IF g.raised # "none" THEN g ELSE MiddleLoop(Tail(middle), g.value)

_get_function_from_name(name, frame) ==
    LET G == [k \in DOMAIN frame.f_globals \cup DOMAIN frame.f_locals |->
                 IF k \in DOMAIN frame.f_locals THEN frame.f_locals[k]
                 ELSE frame.f_globals[k]]
    IN IF Len(name) = 1
       THEN IF frame.builtins # "absent" /\ name[1] \in dir(frame.builtins)
            THEN eval(name[1])
            ELSE IF name[1] \in DOMAIN G THEN Ok(G[name[1]]) ELSE Throw("KeyError")
       ELSE IF name = <<>> THEN Throw("IndexError")
       ELSE IF name[1] \notin DOMAIN G THEN Throw("KeyError")
       ELSE LET fn == name[Len(name)]
                cG == MiddleLoop(PySlice(name, 1, -1), G[name[1]])
            IN IF cG.raised # "none" THEN cG ELSE getattr(cG.value, fn)

\* _pairwise: consecutive pairs; an odd last element ends the generator.
RECURSIVE _pairwise(_)
_pairwise(it) ==
    IF Len(it) < 2 THEN <<>> ELSE <<<<it[1], it[2]>>>> \o _pairwise(Tail(Tail(it)))

\* The first exception a sequence of results raises, "none" when none does.
RECURSIVE FirstRaised(_)
FirstRaised(results) ==
    IF results = <<>> THEN "none"
    ELSE IF Head(results).raised # "none" THEN Head(results).raised
    ELSE FirstRaised(Tail(results))

\* dict(pairs): a later pair with the same key wins.
dict(pairs) ==
    [key \in {pairs[k][1] : k \in DOMAIN pairs} |->
        LET last == CHOOSE k \in DOMAIN pairs :
                        /\ pairs[k][1] = key
                        /\ \A j \in DOMAIN pairs : pairs[j][1] = key => j <= k
        IN pairs[last][2]]

NoResult == [raised |-> "none", found |-> FALSE, name |-> <<>>, func |-> PyNone,
             args |-> <<>>, kwargs |-> <<>>]
RaisedResult(type) == [raised |-> type, found |-> FALSE, name |-> <<>>, func |-> PyNone,
                       args |-> <<>>, kwargs |-> <<>>]

\* The body of get_function_and_args once _disas_call found the call: the
\* operand instructions are resolved pair by pair (key, then value), then the
\* arguments, then the callable, and the first exception ends the call.
ResolveCall(instructions, name, frame) ==
    LET call == instructions[1]
        n_args == _oparg_to_args_kwargs(call.oparg)[1]
        n_kwargs == _oparg_to_args_kwargs(call.oparg)[2]
        off_kwargs == n_kwargs
        off_args == off_kwargs + n_args
    IN Bind(_pairwise(PySlice(instructions, 1, off_kwargs)), LAMBDA vk :
       Bind([k \in DOMAIN vk |-> _handle_opcode(vk[k][2], frame)], LAMBDA keys :
       Bind([k \in DOMAIN vk |-> _handle_opcode(vk[k][1], frame)], LAMBDA values :
       Bind(PySlice(instructions, off_kwargs, off_args), LAMBDA window :
       Bind([k \in DOMAIN window |-> _handle_opcode(window[k], frame)], LAMBDA args :
       Bind(_get_function_from_name(name, frame), LAMBDA func :
       Bind(FirstRaised([k \in 1..(2 * Len(vk)) |->
                            IF k % 2 = 1 THEN keys[(k + 1) \div 2] ELSE values[k \div 2]]
                           \o args \o <<func>>), LAMBDA first :
          IF first # "none" THEN RaisedResult(first)
          ELSE [raised |-> "none", found |-> TRUE,
                name |-> Join(<<".">>, name),
                func |-> func.value,
                args |-> Reverse([k \in DOMAIN args |-> args[k].value]),
                kwargs |-> dict([k \in DOMAIN vk |->
                                    <<keys[k].value, values[k].value>>])])))))))

get_function_and_args(code, lasti, frame) ==
    Bind(_disas_call(code, lasti), LAMBDA dc :
       IF dc.raised # "none" THEN RaisedResult(dc.raised)
       ELSE IF ~dc.found \/ dc.instructions = <<>> THEN NoResult
       ELSE ResolveCall(dc.instructions, dc.name, frame))

(***************************************************************************)
(* Compiled calls: the instruction stream the host compiler emits for the  *)
(* statement  callee(arg, ..., key=value, ...)  in a function body.        *)
(*                                                                         *)
(* A shape is [head, chain, args, kwargs]: the callee chain[1].chain[2]... *)
(* is loaded by LOAD_GLOBAL (head = "global") or LOAD_FAST (head = "fast") *)
(* and one LOAD_ATTR per further segment; each operand is one LOAD_CONST   *)
(* or LOAD_GLOBAL; each keyword is a LOAD_CONST of its name and one        *)
(* operand; then CALL_FUNCTION n + 256 * m, POP_TOP, LOAD_CONST None,      *)
(* RETURN_VALUE.                                                           *)
(***************************************************************************)
Const(v) == [load |-> "const", v |-> v]
Global(name) == [load |-> "global", v |-> PyStr(name)]

Sym(op, table, v) == [op |-> op, table |-> table, v |-> v]

OperandSym(o) ==
    IF o.load = "const" THEN Sym(LOAD_CONST, "const", o.v)
    ELSE Sym(LOAD_GLOBAL, "name", o.v)

RECURSIVE KeywordSyms(_)
KeywordSyms(kwargs) ==
    IF kwargs = <<>> THEN <<>>
    ELSE <<Sym(LOAD_CONST, "const", PyStr(Head(kwargs)[1])), OperandSym(Head(kwargs)[2])>>
           \o KeywordSyms(Tail(kwargs))

CalleeSyms(shape) ==
    <<Sym(IF shape.head = "global" THEN LOAD_GLOBAL ELSE LOAD_FAST,
          IF shape.head = "global" THEN "name" ELSE "local",
          PyStr(shape.chain[1]))>>
      \o [k \in 1..(Len(shape.chain) - 1) |->
             Sym(LOAD_ATTR, "name", PyStr(shape.chain[k + 1]))]

CallSyms(shape) ==
    CalleeSyms(shape)
      \o [k \in DOMAIN shape.args |-> OperandSym(shape.args[k])]
      \o KeywordSyms(shape.kwargs)
      \o <<Sym(CALL_FUNCTION, "raw", PyInt(Len(shape.args) + 256 * Len(shape.kwargs))),
           Sym(POP_TOP, "none", PyNone),
           Sym(LOAD_CONST, "const", PyNone),
           Sym(RETURN_VALUE, "none", PyNone)>>

RECURSIVE Dedup(_)
Dedup(s) ==
    IF s = <<>> THEN <<>>
    ELSE LET front == Dedup(SubSeq(s, 1, Len(s) - 1))
             last == s[Len(s)]
         IN IF \E k \in DOMAIN front : front[k] = last THEN front
            ELSE Append(front, last)

IndexOf(s, x) == (CHOOSE k \in DOMAIN s : s[k] = x /\ \A j \in 1..(k - 1) : s[j] # x) - 1

TableOf(syms, table) ==
    LET used == SelectSeq(syms, LAMBDA y : y.table = table)
    IN Dedup([k \in DOMAIN used |-> used[k].v])

RECURSIVE Encode(_, _, _, _)
Encode(syms, consts, names, varnames) ==
    IF syms = <<>> THEN <<>>
    ELSE LET y == Head(syms)
             arg == CASE y.table = "const" -> IndexOf(consts, y.v)
                      [] y.table = "name" -> IndexOf(names, y.v.s)
                      [] y.table = "local" -> IndexOf(varnames, y.v.s)
                      [] y.table = "raw" -> y.v.n
                      [] OTHER -> 0
         IN (IF y.op >= HAVE_ARGUMENT THEN <<y.op, arg % 256, arg \div 256>>
             ELSE <<y.op>>)
              \o Encode(Tail(syms), consts, names, varnames)

\* The code object of a function co_name whose body is the call; a method has
\* the parameter self.
Compile(shape, co_name, method) ==
    LET syms == CallSyms(shape)
        consts == Dedup(<<PyNone>> \o TableOf(syms, "const"))
        nameVals == TableOf(syms, "name")
        names == [k \in DOMAIN nameVals |-> nameVals[k].s]
        localVals == TableOf(syms, "local")
        varnames == (IF method THEN <<N_self>> ELSE <<>>)
                      \o [k \in DOMAIN localVals |-> localVals[k].s]
    IN [co_code |-> Encode(syms, consts, names, varnames),
        co_consts |-> consts,
        co_names |-> names,
        co_varnames |-> varnames,
        co_cellvars |-> <<>>,
        co_freevars |-> <<>>,
        co_name |-> co_name,
        co_argcount |-> IF method THEN 1 ELSE 0]

\* The offset of the k-th instruction (1-based) of the call's stream: every
\* instruction before POP_TOP has an argument.
OffsetOf(k) == 3 * (k - 1)
CallIndex(shape) == Len(shape.chain) + Len(shape.args) + 2 * Len(shape.kwargs) + 1
CallOffset(shape) == OffsetOf(CallIndex(shape))

(***************************************************************************)
(* Paths and the filesystem.                                               *)
(*                                                                         *)
(* fs is [cwd, listdir, stat]: listdir is what os.listdir(base) does       *)
(* ([raised, entries], each entry [name, score], score being               *)
(* int(SequenceMatcher(None, f, file).ratio() * 100)), stat is what        *)
(* os.stat(filename) does ([raised, st_mode]).                             *)
(***************************************************************************)
_SIMILARITY_CUTOFF == 75

isabs(p) == p # <<>> /\ p[1] = "/"

join(a, b) ==
    IF isabs(b) THEN b
    ELSE IF a = <<>> \/ a[Len(a)] = "/" THEN a \o b
    ELSE a \o <<"/">> \o b

\* p.rfind('/') + 1
AfterLastSlash(p) ==
    IF \E k \in DOMAIN p : p[k] = "/"
    THEN CHOOSE k \in DOMAIN p : p[k] = "/" /\ \A j \in DOMAIN p : p[j] = "/" => j <= k
    ELSE 0

RECURSIVE rstrip_slash(_)
rstrip_slash(p) ==
    IF p # <<>> /\ p[Len(p)] = "/" THEN rstrip_slash(SubSeq(p, 1, Len(p) - 1)) ELSE p

dirname(p) ==
    LET head == SubSeq(p, 1, AfterLastSlash(p))
    IN IF head # <<>> /\ \E k \in DOMAIN head : head[k] # "/" THEN rstrip_slash(head)
       ELSE head

basename(p) == SubSeq(p, AfterLastSlash(p) + 1, Len(p))

by_score(pair) == pair[2]
\* A cutoff test that keeps a score equal to the cutoff.
by_score_cutoff_inclusive(pair) == pair[2] >= _SIMILARITY_CUTOFF

by_score_cutoff(pair) == pair[2] > _SIMILARITY_CUTOFF

\* sorted(scores, key=by_score): a stable sort.
RECURSIVE sorted(_)
sorted(scores) ==
    IF scores = <<>> THEN <<>>
    ELSE LET front == sorted(SubSeq(scores, 1, Len(scores) - 1))
             last == scores[Len(scores)]
             keep == Cardinality({k \in DOMAIN front : by_score(front[k]) <= by_score(last)})
         IN SubSeq(front, 1, keep) \o <<last>> \o SubSeq(front, keep + 1, Len(front))

filter(pred(_), s) == SelectSeq(s, pred)

\* path is a Python value: os.path.isabs(None) raises AttributeError.
_find_similar_files(path, world) ==
    IF path.t # "str" THEN Throw("AttributeError")
    ELSE LET full == IF ~isabs(path.s) THEN join(world.cwd, path.s) ELSE path.s
             base == dirname(full)
             file == basename(full)
         IN IF world.listdir.raised # "none" THEN Throw(world.listdir.raised)
            ELSE LET entries == world.listdir.entries
                     scores == [k \in DOMAIN entries |->
                                   <<join(base, entries[k].name), entries[k].score>>]
                 IN Ok(filter(by_score_cutoff, sorted(scores)))

(***************************************************************************)
(* Traceback helpers. A traceback is the sequence of its links, outermost  *)
(* first; each link is [tb_lasti, tb_frame].                               *)
(***************************************************************************)
RECURSIVE TailLink(_)
TailLink(links) == IF Len(links) = 1 THEN links[1] ELSE TailLink(Tail(links))

_tail_frame(links) == TailLink(links).tb_frame

\* What _get_function_name hands to get_function_and_args: frame.f_code and
\* tb.tb_lasti, tb being the link the caller passed.
HandedOffset(link, frame) == link.tb_lasti

NotHanded == [called |-> FALSE, code |-> <<>>, lasti |-> 0]
Handed(code, lasti) == [called |-> TRUE, code |-> code, lasti |-> lasti]

_get_function_name(link, frame) ==
    Bind(get_function_and_args(frame.f_code, HandedOffset(link, frame), frame),
         LAMBDA special_call :
    LET first_self == frame.f_code.co_argcount > 0
                        /\ \E k \in DOMAIN frame.f_code.co_varnames :
                              frame.f_code.co_varnames[k] = N_self
        full_name == frame.f_code.co_name \o <<"(", ")">>
        label ==
            IF special_call.raised # "none" THEN Throw(special_call.raised)
            ELSE IF special_call.found THEN Ok(special_call.name)
            ELSE IF first_self
            THEN IF N_self \in DOMAIN frame.f_locals
                 THEN Ok(frame.f_locals[N_self].s \o <<".">> \o full_name)
                 ELSE Throw("KeyError")
            ELSE Ok(full_name)
    IN [raised |-> label.raised, value |-> label.value,
        handed |-> Handed(frame.f_code, HandedOffset(link, frame))])

\* tb is the first link of the traceback.
get_function_name(links) ==
    Bind(_tail_frame(links), LAMBDA frame : _get_function_name(links[1], frame))

(***************************************************************************)
(* The rules.                                                              *)
(***************************************************************************)
ENOENT == 2
EPERM == 1
EACCES == 13

errorcode(e) ==
    CASE e = ENOENT -> <<"E", "N", "O", "E", "N", "T">>
      [] e = EPERM -> <<"E", "P", "E", "R", "M">>
      [] e = EACCES -> <<"E", "A", "C", "C", "E", "S">>

\* An Eperm rule whose list lacks EACCES.
errnos_without_EACCES(rule) ==
    CASE rule = "Enoent" -> {ENOENT}
      [] rule = "Eperm" -> {EPERM}

errnos(rule) ==
    CASE rule = "Enoent" -> {ENOENT}
      [] rule = "Eperm" -> {EPERM, EACCES}

\* ErrnoAlleviation.match
match(rule, exception) == exception.has_errno /\ exception.errno \in errnos(rule)

__alleviations == <<"Enoent", "Eperm">>

RECURSIVE FirstMatch(_, _)
FirstMatch(rules, exc) ==
    IF rules = <<>> THEN "none"
    ELSE IF match(Head(rules), exc) THEN Head(rules)
    ELSE FirstMatch(Tail(rules), exc)

find_alleviation(exc) == FirstMatch(__alleviations, exc)

NotRendered == [called |-> FALSE, items |-> <<>>, format |-> Plain, raised |-> "none",
                text |-> <<>>, doc |-> NoDoc]
RenderCall(its, fmt, exception) ==
    Bind(render(its, fmt, exception), LAMBDA r :
       [called |-> TRUE, items |-> its, format |-> fmt, raised |-> r.raised,
        text |-> r.text, doc |-> r.doc])

\* What a rule's run did: the exception it raised, the items of its context C,
\* its R.render() call, whether it printed, and what its label lookup handed on.
RunResult(raised, its, rend, printed, hand) ==
    [raised |-> raised, items |-> its, rendered |-> rend, printed |-> printed,
     handed |-> hand]

S_ProgramError == <<"P", "r", "o", "g", "r", "a", "m", " ", "e", "r", "r", "o", "r">>
S_Symptoms == <<"S", "y", "m", "p", "t", "o", "m", "s">>
S_Solutions == <<"S", "o", "l", "u", "t", "i", "o", "n", "s">>
S_FileDoesNotExist == <<"F", "i", "l", "e", " ", "d", "o", "e", "s", " ", "n", "o", "t", " ", "e", "x", "i", "s", "t">>
S_CheckOut == <<"C", "h", "e", "c", "k", " ", "o", "u", "t", " ", "f", "i", "l", "e", "s", " ", "w", "i", "t", "h", " ", "s", "i", "m", "i", "l", "a", "r", " ", "n", "a", "m", "e">>
S_UnableToStat == <<"U", "n", "a", "b", "l", "e", " ", "t", "o", " ", "s", "t", "a", "t", " ">>

\* '      {0} similarity: {1:d}%\n'.format(*sf) for sf in similar[:3]
RECURSIVE Similars(_)
Similars(shown) ==
    IF shown = <<>> THEN <<>>
    ELSE <<" ", " ", " ", " ", " ", " ">> \o Head(shown)[1] \o <<" ", "s", "i", "m", "i", "l", "a", "r", "i", "t", "y", ":", " ">>
           \o Decimal(Head(shown)[2]) \o <<"%", "\n">> \o Similars(Tail(shown))

EnoentDescription(filename, errno_, fname) ==
    <<"F", "i", "l", "e", " ">> \o filename \o <<" ", "c", "o", "u", "l", "d", " ", "n", "o", "t", " ", "b", "e", " ", "f", "o", "u", "n", "d", "\n", "\n", "E", "r", "r", "n", "o", ":", " ", " ">>
      \o Decimal(errno_) \o <<" ", "(">> \o errorcode(errno_)
      \o <<")", "\n", "A", "c", "t", "i", "o", "n", ":", " ">> \o fname

\* The items Enoent.run adds to its context C, in order.
EnoentItems(filename, errno_, fname, similar_) ==
    << Header(S_ProgramError),
       Description(EnoentDescription(filename, errno_, fname)),
       Separator(0),
       Header(S_Symptoms),
       Symptom(S_FileDoesNotExist, filename),
       Separator(0),
       Header(S_Solutions),
       Solution(S_CheckOut, Similars(PySlice(similar_, 0, 3))) >>

Enoent_run(exception, output, links, world) ==
    Bind(_find_similar_files(exception.filename, world), LAMBDA similar_ :
       IF similar_.raised # "none"
       THEN RunResult(similar_.raised, <<>>, NotRendered, FALSE, NotHanded)
       ELSE Bind(get_function_name(links), LAMBDA fname :
          IF fname.raised # "none"
          THEN RunResult(fname.raised, <<>>, NotRendered, FALSE, fname.handed)
          ELSE Bind(EnoentItems(IF ~isabs(exception.filename.s)
                                THEN join(world.cwd, exception.filename.s)
                                ELSE exception.filename.s,
                                exception.errno, fname.value, similar_.value),
                    LAMBDA C :
               Bind(RenderCall(C, output, exception), LAMBDA R :
                  RunResult(R.raised, C, R, R.raised = "none", fname.handed)))))

\* def _get_mode_description(mode, stat, path) against the call
\* _get_mode_description(mode, filename).
_get_mode_description_params == 3
_get_mode_description_passed == 2

Eperm_run(exception, output, links, world) ==
    Bind(_tail_frame(links), LAMBDA frame :
    Bind(_get_function_name(links[1], frame), LAMBDA fname :
       IF fname.raised # "none"
       THEN RunResult(fname.raised, <<>>, NotRendered, FALSE, fname.handed)
       ELSE IF exception.filename.t # "str"
       THEN RunResult("AttributeError", <<>>, NotRendered, FALSE, fname.handed)
       ELSE IF world.stat.raised # "none"
       THEN RunResult("none",
                      <<Description(S_UnableToStat
                                      \o (IF ~isabs(exception.filename.s)
                                          THEN join(world.cwd, exception.filename.s)
                                          ELSE exception.filename.s))>>,
                      NotRendered, FALSE, fname.handed)
       ELSE IF _get_mode_description_passed # _get_mode_description_params
       THEN RunResult("TypeError", <<>>, NotRendered, FALSE, fname.handed)
       ELSE RunResult("none", <<>>, NotRendered, FALSE, fname.handed)))

run(rule, exception, output, links, world) ==
    CASE rule = "Enoent" -> Enoent_run(exception, output, links, world)
      [] rule = "Eperm" -> Eperm_run(exception, output, links, world)

\* exception(exc, output): [rule, raised, printed, run]; printed is "type" for
\* print(type(exc)), "report" for a rule's print(R.render()), else "nothing".
exception(exc, output, links, world) ==
    Bind(find_alleviation(exc), LAMBDA A :
       IF A = "none"
       THEN [rule |-> "none", raised |-> "none", printed |-> "type",
             run |-> RunResult("none", <<>>, NotRendered, FALSE, NotHanded)]
       ELSE Bind(run(A, exc, output, links, world), LAMBDA r :
               [rule |-> A, raised |-> r.raised,
                printed |-> IF r.printed THEN "report" ELSE "nothing",
                run |-> r]))

(***************************************************************************)
(* The inputs the specifications draw from.                                *)
(***************************************************************************)
\* Sequences over S of length lo..hi.
SeqsOf(S, lo, hi) == UNION {[1..n -> S] : n \in lo..hi}

P_rel == N_x
P_abs == <<"/", "d", "/", "x">>
Cwd == <<"/", "w">>

ErrorObject(has_errno, errno, filename) ==
    [has_errno |-> has_errno, errno |-> errno, filename |-> filename,
     type |-> IF has_errno THEN "OSError" ELSE "ValueError", message |-> <<>>]

\* Errors without errno, and with the errno of a rule or of none (17, EEXIST).
Filenames == {PyNone, PyStr(P_rel), PyStr(P_abs)}
Errors ==
    {ErrorObject(FALSE, 0, f) : f \in Filenames}
      \cup {ErrorObject(TRUE, e, f) : e \in {ENOENT, EPERM, EACCES, 17}, f \in Filenames}

\* Frames of a traceback.
OsOpenShape ==
    [head |-> "global", chain |-> <<N_os, N_open>>, args |-> <<Const(PyStr(N_x))>>,
     kwargs |-> << <<N_mode, Const(PyInt(0))>> >>]
OpenShape ==
    [head |-> "global", chain |-> <<N_open>>, args |-> <<Const(PyStr(N_x))>>,
     kwargs |-> <<>>]
HelperShape == [head |-> "global", chain |-> <<N_f>>, args |-> <<>>, kwargs |-> <<>>]

Frame(code, globals, locals, builtins) ==
    [f_code |-> code, f_globals |-> globals, f_locals |-> locals, builtins |-> builtins]
Link(shape, frame) == [tb_lasti |-> CallOffset(shape), tb_frame |-> frame]

MainGlobals == (N_os :> PyObj(N_os)) @@ (N_f :> PyObj(N_f))
NoNames == [k \in {} |-> PyNone]

\* main(): os.open("x", mode=0)
MainLink == Link(OsOpenShape, Frame(Compile(OsOpenShape, N_main, FALSE), MainGlobals,
                                    NoNames, "module"))
\* Reader.read(self): open("x"), in an imported module
ReadLink == Link(OpenShape, Frame(Compile(OpenShape, N_read, TRUE), MainGlobals,
                                  (N_self :> PyObj(N_Reader)), "dict"))
\* g(): f()
HelperLink == Link(HelperShape, Frame(Compile(HelperShape, <<"g">>, FALSE), MainGlobals,
                                      NoNames, "module"))

SampleLinks == {MainLink, ReadLink, HelperLink}
Tracebacks == SeqsOf(SampleLinks, 1, MaxDepth)

EntryName(k) == <<"x">> \o Decimal(k)
Scores == {40, 75, 76, 100}
Listings ==
    {[k \in DOMAIN scores |-> [name |-> EntryName(k), score |-> scores[k]]] :
        scores \in SeqsOf(Scores, 0, MaxEntries)}

ListdirOk(entries) == [raised |-> "none", entries |-> entries]
ListdirFails == [raised |-> "OSError", entries |-> <<>>]
StatOk == [raised |-> "none", st_mode |-> 420]
StatFails == [raised |-> "OSError", st_mode |-> 0]
World(listdir, stat) == [cwd |-> Cwd, listdir |-> listdir, stat |-> stat]

FourEntries ==
    <<[name |-> EntryName(1), score |-> 100], [name |-> EntryName(2), score |-> 80],
      [name |-> EntryName(3), score |-> 90], [name |-> EntryName(4), score |-> 76]>>
Worlds ==
    {World(l, st) : l \in {ListdirFails, ListdirOk(FourEntries)}, st \in {StatOk, StatFails}}

\* Call sites of the recovery engine.
Operands == {Const(PyInt(0)), Const(PyStr(N_x)), Global(N_f)}
Callees ==
    { [head |-> "global", chain |-> <<N_open>>],
      [head |-> "global", chain |-> <<N_os, N_open>>],
      [head |-> "global", chain |-> <<N_os, N_path, N_join>>],
      [head |-> "fast", chain |-> <<N_f>>],
      [head |-> "fast", chain |-> <<N_f, N_read>>] }
KwNames == <<N_mode, N_flags, N_x, N_get>>
Shapes ==
    {[head |-> c.head, chain |-> c.chain, args |-> a,
      kwargs |-> [k \in DOMAIN kv |-> <<KwNames[k], kv[k]>>]] :
        c \in Callees, a \in SeqsOf(Operands, 0, MaxArgs), kv \in SeqsOf(Operands, 0, MaxKw)}

\* The frame of main() in __main__ (builtins = "module") or in an imported
\* module (builtins = "dict"); both define os and f.
SiteFrame(shape, builtins) ==
    Frame(Compile(shape, N_main, FALSE), MainGlobals,
          IF shape.head = "fast" THEN (N_f :> PyObj(N_f)) ELSE NoNames,
          builtins)
Sites ==
    {[shape |-> sh, frame |-> SiteFrame(sh, b), lasti |-> OffsetOf(k)] :
        sh \in Shapes, b \in {"module", "dict"}, k \in 1..(MaxArgs + 2 * MaxKw + 4)}

ItemUniverse ==
    { Description(<<" ", "a", "\n">>), Description(<<"b">>),
      Symptom(<<"n">>, <<"v">>), Symptom(<<"n", "a", "m">>, <<"w">>),
      Solution(<<"d">>, <<"s", "\n">>), Solution(<<"d">>, <<" ", "t">>),
      Header(<<"h">>),
      Separator(0), Separator(2) }

(***************************************************************************)
(* State.                                                                  *)
(***************************************************************************)
NotSelected == [called |-> FALSE, rule |-> "none"]
NoOutcome == [called |-> FALSE, rule |-> "none", raised |-> "none", printed |-> "nothing",
              output |-> Plain]
NoSimilar == [called |-> FALSE, raised |-> "none", value |-> <<>>]
NoSite == [shape |-> HelperShape, frame |-> HelperLink.tb_frame, lasti |-> 0]
NotRecovered == [called |-> FALSE, result |-> NoResult]

Idle ==
    /\ items = <<>>
    /\ rendered = NotRendered
    /\ selected = NotSelected
    /\ outcome = NoOutcome
    /\ handed = NotHanded
    /\ similar = NoSimilar
    /\ recovered = NotRecovered

(***************************************************************************)
(* Actions.                                                                *)
(***************************************************************************)
\* AlleviateContext.add_item
add_item(item) ==
    /\ Len(items) < MaxItems
    /\ items' = Append(items, item)
    /\ UNCHANGED <<format, rendered, err, tb, fs, selected, outcome, handed, similar,
                   site, recovered>>

AddItem == \E item \in ItemUniverse : add_item(item)

\* Renderer.render on the current context
Render ==
    /\ rendered' = RenderCall(items, format, err)
    /\ UNCHANGED <<items, format, err, tb, fs, selected, outcome, handed, similar, site,
                   recovered>>

\* find_alleviation(err)
FindAlleviation ==
    /\ selected' = [called |-> TRUE, rule |-> find_alleviation(err)]
    /\ UNCHANGED <<items, format, rendered, err, tb, fs, outcome, handed, similar, site,
                   recovered>>

\* exception(err, output) inside the handler of err: a rule's run builds a new
\* context, which replaces the current one.
Exception ==
    \E output \in Output :
        \E e \in {exception(err, output, tb, fs)} :
           /\ outcome' = [called |-> TRUE, rule |-> e.rule, raised |-> e.raised,
                          printed |-> e.printed, output |-> output]
           /\ items' = e.run.items
           /\ format' = output
           /\ rendered' = e.run.rendered
           /\ handed' = e.run.handed
           /\ UNCHANGED <<err, tb, fs, selected, similar, site, recovered>>

\* get_function_name(tb)
GetFunctionName ==
    /\ handed' = get_function_name(tb).handed
    /\ UNCHANGED <<items, format, rendered, err, tb, fs, selected, outcome, similar, site,
                   recovered>>

\* _find_similar_files(err.filename)
FindSimilarFiles ==
    /\ \E r \in {_find_similar_files(err.filename, fs)} :
          similar' = [called |-> TRUE, raised |-> r.raised,
                      value |-> IF r.raised = "none" THEN r.value ELSE <<>>]
    /\ UNCHANGED <<items, format, rendered, err, tb, fs, selected, outcome, handed, site,
                   recovered>>

\* get_function_and_args(site.frame.f_code, site.lasti, site.frame)
GetFunctionAndArgs ==
    /\ recovered' = [called |-> TRUE,
                     result |-> get_function_and_args(site.frame.f_code, site.lasti,
                                                      site.frame)]
    /\ UNCHANGED <<items, format, rendered, err, tb, fs, selected, outcome, handed,
                   similar, site>>

(***************************************************************************)
(* Specifications.                                                         *)
(***************************************************************************)
\* A context under construction, rendered at any time; exception() on a
\* file-not-found error builds the Enoent report.
Init ==
    /\ Idle
    /\ format \in Output
    /\ err \in {ErrorObject(TRUE, ENOENT, PyStr(f)) : f \in {P_rel, P_abs}}
    /\ tb = <<MainLink>>
    /\ fs = World(ListdirOk(FourEntries), StatOk)
    /\ site = NoSite

Next == AddItem \/ Render \/ Exception

Spec == Init /\ [][Next]_vars

\* exception() and its rule lookup on any error, traceback and filesystem.
InitDispatch ==
    /\ Idle
    /\ format = Detailed
    /\ err \in Errors
    /\ tb \in Tracebacks
    /\ fs \in Worlds
    /\ site = NoSite

NextDispatch == FindAlleviation \/ GetFunctionName \/ Exception

SpecDispatch == InitDispatch /\ [][NextDispatch]_vars

\* _find_similar_files on any listing and scores.
InitSimilar ==
    /\ Idle
    /\ format = Detailed
    /\ err \in {ErrorObject(TRUE, ENOENT, PyStr(f)) : f \in {P_rel, P_abs}}
    /\ tb = <<MainLink>>
    /\ fs \in {World(ListdirOk(l), StatOk) : l \in Listings}
                \cup {World(ListdirFails, StatOk)}
    /\ site = NoSite

NextSimilar == FindSimilarFiles

SpecSimilar == InitSimilar /\ [][NextSimilar]_vars

\* Call-site recovery on any compiled call, offset and frame.
InitRecovery ==
    /\ Idle
    /\ format = Detailed
    /\ err = ErrorObject(TRUE, ENOENT, PyStr(P_rel))
    /\ tb = <<MainLink>>
    /\ fs = World(ListdirOk(FourEntries), StatOk)
    /\ site \in {x \in Sites : x.lasti < Len(x.frame.f_code.co_code)}

NextRecovery == GetFunctionAndArgs

SpecRecovery == InitRecovery /\ [][NextRecovery]_vars

(***************************************************************************)
(* Properties.                                                             *)
(***************************************************************************)
IsPrefix(p, s) == Len(p) <= Len(s) /\ SubSeq(s, 1, Len(p)) = p
StartsWith(s, p) == IsPrefix(p, s)
EndsWith(s, p) == Len(p) <= Len(s) /\ SubSeq(s, Len(s) - Len(p) + 1, Len(s)) = p
Positions(its, kind) == {k \in DOMAIN its : its[k].kind = kind}
\* The rank of position k among the positions of its kind.
Rank(its, k) == Cardinality({j \in 1..k : its[j].kind = its[k].kind})

\* The path a relative filename resolves to.
Resolved(filename) ==
    IF filename[1] = "/" THEN filename ELSE Cwd \o <<"/">> \o filename

\* The rule the registry [Enoent, Eperm] holds for an error, "none" for none.
RuleFor(e) ==
    IF ~e.has_errno THEN "none"
    ELSE IF e.errno = ENOENT THEN "Enoent"
    ELSE IF e.errno = EPERM \/ e.errno = EACCES THEN "Eperm"
    ELSE "none"

\* t is s without its leading and trailing whitespace.
IsTrimOf(t, s) ==
    \E lo \in 1..(Len(s) + 1) : \E hi \in (lo - 1)..Len(s) :
        /\ t = SubSeq(s, lo, hi)
        /\ \A k \in 1..(lo - 1) : s[k] \in Whitespace
        /\ \A k \in (hi + 1)..Len(s) : s[k] \in Whitespace
        /\ t # <<>> => (t[1] \notin Whitespace /\ t[Len(t)] \notin Whitespace)

\* Where the plain rendering of the k-th item starts when every item before
\* it renders followed by one newline.
RECURSIVE PlainOffset(_, _)
PlainOffset(its, k) ==
    IF k = 1 THEN 0
    ELSE PlainOffset(its, k - 1) + Len(_render(its[k - 1], Plain, 0)) + 1

\* The lines of text: what lies between two successive line breaks.
Lines(text) ==
    LET breaks == {0, Len(text) + 1} \cup {k \in DOMAIN text : text[k] = "\n"}
    IN {SubSeq(text, a + 1, b - 1) :
           <<a, b>> \in {p \in breaks \X breaks :
                            /\ p[1] < p[2]
                            /\ \A c \in breaks : ~(p[1] < c /\ c < p[2])}}

\* The columns at which the lines of text that show symptom s start its value.
ValueColumns(text, s) ==
    LET label == i \o s.name \o <<":">>
    IN {Len(line) - Len(s.value) :
           line \in {l \in Lines(text) :
                        /\ StartsWith(l, label)
                        /\ EndsWith(l, s.value)
                        /\ Len(l) >= Len(label) + Len(s.value)
                        /\ \A c \in (Len(label) + 1)..(Len(l) - Len(s.value)) :
                              l[c] = " "}}

\* C1: exception(error, format) returns normally for every error object and
\* format, whatever the stat, the directory listing and the call-site
\* recovery do: no exception escapes it.
C1_ExceptionNeverRaises == outcome.called => outcome.raised = "none"

\* C2: find_alleviation returns the first matching rule of [Enoent, Eperm]:
\* none without an errno attribute or with an errno of neither list, Enoent for
\* ENOENT, Eperm for EPERM and EACCES; exception() runs exactly that rule, and
\* with no rule it only prints the error's type.
C2_FirstMatchingRule ==
    /\ selected.called => selected.rule = RuleFor(err)
    /\ outcome.called => outcome.rule = RuleFor(err)
    /\ (outcome.called /\ RuleFor(err) = "none") =>
          /\ outcome.printed = "type"
          /\ outcome.raised = "none"
          /\ items = <<>>
          /\ ~rendered.called

C2_Witness ==
    /\ selected.called /\ outcome.called
    /\ err.has_errno /\ err.errno = EACCES
    /\ selected.rule = "Eperm" /\ outcome.rule = "Eperm"

\* C3: at the offset of a call with n positional and m keyword arguments, the
\* callee loaded by LOAD_GLOBAL and LOAD_ATTRs and every operand by one
\* instruction, get_function_and_args returns the dot-joined callee name, the
\* n argument values in call order and a mapping of exactly the m keyword
\* names to their values (stated for constant operands and a recovery that
\* did not raise).
C3_RecoversNameArgsAndKeywords ==
    LET shape == site.shape
        r == recovered.result
    IN ( /\ recovered.called
         /\ site.lasti = CallOffset(shape)
         /\ shape.head = "global"
         /\ \A k \in DOMAIN shape.args : shape.args[k].load = "const"
         /\ \A k \in DOMAIN shape.kwargs : shape.kwargs[k][2].load = "const"
         /\ r.raised = "none" )
       => /\ r.found
          /\ r.name = Join(<<".">>, shape.chain)
          /\ r.args = [k \in DOMAIN shape.args |-> shape.args[k].v]
          /\ DOMAIN r.kwargs = {PyStr(shape.kwargs[k][1]) : k \in DOMAIN shape.kwargs}
          /\ \A k \in DOMAIN shape.kwargs :
                r.kwargs[PyStr(shape.kwargs[k][1])] = shape.kwargs[k][2].v

C5_SimilarAboveCutoffAscending ==
    (similar.called /\ similar.raised = "none")
    => LET entries == fs.listdir.entries
           res == similar.value
           above == {k \in DOMAIN entries : entries[k].score > 75}
       IN /\ Len(res) = Cardinality(above)
          /\ \A k \in above :
                \E j \in DOMAIN res :
                    /\ res[j][2] = entries[k].score
                    /\ EndsWith(res[j][1], <<"/">> \o entries[k].name)
          /\ \A j \in DOMAIN res : res[j][2] > 75
          /\ \A j \in DOMAIN res : \A l \in DOMAIN res : j < l => res[j][2] <= res[l][2]

C5_Witness ==
    /\ similar.called /\ similar.raised = "none"
    /\ \E k \in DOMAIN fs.listdir.entries : fs.listdir.entries[k].score = 75
    /\ \E k \in DOMAIN fs.listdir.entries : fs.listdir.entries[k].score = 100
    /\ Len(fs.listdir.entries) = 3
    /\ Len(similar.value) = 2
    /\ similar.value[1][2] = 76

\* C6: the plain rendering is, in append order, each item's plain rendering
\* followed by one newline: the k-th appended item's segment starts where the
\* segments of the k - 1 items before it end, and an item that renders to the
\* empty string still adds its newline.
C6_PlainIsConcatenation ==
    /\ rendered.called => (IsPrefix(rendered.items, items) \/ outcome.called)
    /\ (rendered.called /\ rendered.format = Plain)
       => LET its == rendered.items
              text == rendered.text
          IN /\ rendered.raised = "none"
             /\ Len(text) = PlainOffset(its, Len(its) + 1)
             /\ \A k \in DOMAIN its :
                   LET seg == _render(its[k], Plain, 0)
                       off == PlainOffset(its, k)
                   IN /\ SubSeq(text, off + 1, off + Len(seg)) = seg
                      /\ text[off + Len(seg) + 1] = "\n"

C6_Witness ==
    /\ rendered.called /\ rendered.format = Plain
    /\ ~outcome.called
    /\ Len(rendered.items) = 2
    /\ rendered.items[1].kind \in {"symptom", "separator"}
    /\ rendered.items[2].kind = "description"
    /\ rendered.text = <<"\n">> \o rendered.items[2].text \o <<"\n", "\n">>

\* C7: in the detailed rendering the value of every symptom starts at the same
\* column, whatever the length of its name.
C7_SymptomValuesAligned ==
    (rendered.called /\ rendered.format = Detailed /\ rendered.raised = "none")
    => \E column \in 0..Len(rendered.text) :
          \A k \in Positions(rendered.items, "symptom") :
              ValueColumns(rendered.text, rendered.items[k]) = {column}

\* C8: Eperm.run never renders or prints and always returns normally: when
\* the stat fails its context holds exactly the Description "Unable to stat
\* <path>", when the stat succeeds it holds no item (stated for an error with
\* a filename and a traceback whose label lookup does not raise).
C8_EpermRunIsSilent ==
    ( /\ outcome.called /\ outcome.rule = "Eperm"
      /\ err.filename.t = "str"
      /\ get_function_name(tb).raised = "none" )
    => /\ outcome.raised = "none"
       /\ outcome.printed = "nothing"
       /\ ~rendered.called
       /\ fs.stat.raised # "none" =>
             items = <<Description(S_UnableToStat \o Resolved(err.filename.s))>>
       /\ fs.stat.raised = "none" => items = <<>>

\* C9: call-site recovery never raises: get_function_and_args returns a
\* 4-tuple or no result for every instruction stream, offset and namespace.
C9_RecoveryNeverRaises == recovered.called => recovered.result.raised = "none"

\* C10: the label lookup hands the recovery engine the code object of the
\* deepest traceback link's frame together with that same link's
\* last-instruction offset.
C10_CodeAndOffsetOfSameLink ==
    handed.called =>
        /\ handed.code = tb[Len(tb)].tb_frame.f_code
        /\ handed.lasti = tb[Len(tb)].tb_lasti

====
